---- MODULE Spec2Model ----
\* Active-speaker tracker (Components/Speaker.py) and clip assembler
\* (Components/MultiClipProcessor.py) of the video shorts creator.
EXTENDS Integers, Sequences, FiniteSets, TLC

\* ------------------------------------------------------------------ bounds
MaxFrames == 3        \* video frames of one tracked clip
MaxChunks == 3        \* complete 30 ms chunks the audio track may hold
MaxDetections == 2    \* raw detections the face detector returns per frame
MaxConcFrames == 2    \* frames per pass when two passes overlap
MaxHighlights == 2    \* highlights handed to process_multiple_clips
MaxTypes == 2         \* length of output_types (besides the default list)
MaxOutputs == 6       \* output files one run may be asked for in all
MaxRunFiles == 1      \* *.mp4 files one processing subprocess may leave behind

\* ------------------------------------------------------- program constants
SampleRate == 16000        \* extract_audio_from_video: set_frame_rate(16000)
FrameDurationMs == 30      \* frame_duration_ms
BytesPerSample == 2        \* "2 bytes per sample"
ConfThreshold == 30        \* confidence > 0.3, in hundredths

None == <<>>
Passes == {1, 2}

VARIABLES
  pcT,               \* [pass -> position in detect_faces_and_speakers]
  nFrames,           \* [pass -> number of frames cap.read() will deliver]
  audioLen,          \* [pass -> len(audio_data) in bytes]
  capPos,            \* [pass -> frames read from cap so far]
  offset,            \* [pass -> offset of the audio generator]
  detections,        \* [pass -> detections of the frame last read]
  is_speaking_audio, \* [pass -> VAD verdict of the chunk last read]
  Frames,            \* the module-level list Frames (shared by all passes)
  emitted,           \* [pass -> frame indexes a decision was appended for]
  solo,              \* [pass -> decisions computed on the pass's own history]
  result,            \* [pass -> Frames as the caller finds it on return]
  hadFace,           \* [pass -> per processed frame: did a detection pass?]
  cropPlan,          \* [pass -> crop window per frame, once reframed]
  framePool,         \* frame contents cap.read() may deliver in this run
  speechPool,        \* verdicts the VAD may give in this run
  clip,              \* the frames of the video when the run fixes them, else <<>>
  fs,                \* the file system: the set of existing paths
  pcA,               \* [run -> position in process_multiple_clips]
  highlights,        \* [run -> number of highlights of the run]
  output_types,      \* [run -> the requested output types, in order]
  clipIdx,           \* [run -> i of "for i, highlight in enumerate(highlights, 1)"]
  typeIdx,           \* [run -> position of "for output_type in output_types"]
  output_files,      \* [run -> output_files of the current call]
  failed_outputs,    \* [run -> failed_outputs of the current call]
  all_outputs,       \* [run -> all_outputs: per clip number its 'files']
  typeLog,           \* [run -> per loop iteration: "skipped", "ok" or "raised"]
  cropLog,           \* [run -> "none", "ok" or "raised": crop_to_vertical of the call]
  fatal,             \* [run -> clip numbers whose extraction raised]
  touched            \* [run -> temporary paths the run wrote, read or removed]

trackerVars == <<pcT, nFrames, audioLen, capPos, offset, detections,
                 is_speaking_audio, Frames, emitted, solo, result, hadFace,
                 cropPlan, framePool, speechPool, clip>>
assemblerVars == <<pcA, highlights, output_types, clipIdx, typeIdx,
                   output_files, failed_outputs, all_outputs, typeLog, cropLog,
                   fatal, touched>>

VARIABLES
  pcE,               \* position in crop_video: "off", "call", "returned", "raised"
  start_time,        \* crop_video's start_time, in hundredths of a second
  end_time,          \* crop_video's end_time as requested, same unit
  video_duration,    \* video.duration of the input file, same unit
  subclip_range,     \* the <<t_start, t_end>> handed to video.subclip, or None
  pcM,               \* position in main.py's script
  auto_approve,      \* args.auto_approve
  num_clips,         \* args.clips
  highlight_list,    \* main.py's list "highlights": records [start, end]
  approved,          \* main.py's flag "approved"
  cancelled,         \* has 'n' been read at the approval prompt?
  regenerated,       \* has 'r' been read at the approval prompt?
  pcS,               \* position in add_subtitles_to_video
  transcriptions,    \* the segments [text, start, end] handed in, in tenths of a second
  video_start_time,  \* video_start_time (the highlight's start), same unit
  clip_duration,     \* video.duration of the sub-clip, same unit
  text_clips,        \* the text clips composited: records [text, start, duration]
  clipOf,            \* per text clip: the index of the segment it renders
  clip_errors,       \* indexes of the segments whose TextClip(...) raised
  pcR,               \* position in the Reframer's pass
  frame_size,        \* <<width, height>> of the source clip
  decisions,         \* the SpeakerDecision sequence handed to the Reframer
  plan               \* the CropPlan: one window <<left, top, right, bottom>> per frame

\* azure_api.py: the job store, its background tasks and the /process endpoint.
TaskIds == {1, 2}          \* the POST /process-async requests of one server run
JobIds == {1, 2}           \* the job_id values the requests carry
SyncId == 0                \* tags the run of the synchronous POST /process

VARIABLES
  job_status_store,  \* the dict: job id -> record, defined on the ids present
  job_status_lock,   \* the holder of the threading.Lock, or 0 when free
  pcB,               \* per task: position in process_video_async / _background
  request_job,       \* per task: request.job_id
  input_valid,       \* per task: does the request name a usable input?
  proc_result,       \* per task: result.returncode, -1 before the run returns
  found,             \* per task: the files its glob of /app/output listed
  output_dir,        \* the *.mp4 under /app/output: <<run, k>>, run's k-th file
  status_response,   \* what the last GET /status/{job_id} answered
  pcP,               \* position of the POST /process request
  sync_response,     \* the VideoProcessingResponse of POST /process
  service,           \* archived system: "api" (api/main.py) or "gateway"
  jobs,              \* archived system: job id -> JobStatus, on the ids present
  pcW,               \* archived system: per job, position of its background task
  webhook_url,       \* archived system: per job, was a webhook_url given?
  notifications      \* archived system: per job, the statuses the webhooks carried

apiVars == <<job_status_store, job_status_lock, pcB, request_job, input_valid,
             proc_result, found, output_dir, status_response, pcP, sync_response>>
archiveVars == <<service, jobs, pcW, webhook_url, notifications>>
serviceVars == <<apiVars, archiveVars>>

editVars == <<pcE, start_time, end_time, video_duration, subclip_range>>
mainVars == <<pcM, auto_approve, num_clips, highlight_list, approved, cancelled,
              regenerated>>
subtitleVars == <<pcS, transcriptions, video_start_time, clip_duration,
                  text_clips, clipOf, clip_errors>>
reframerVars == <<pcR, frame_size, decisions, plan>>
vars == <<trackerVars, assemblerVars, fs, editVars, mainVars, subtitleVars,
          reframerVars, serviceVars>>
\* What an action of one component leaves alone in the others.
outsideTracker == <<assemblerVars, editVars, mainVars, subtitleVars, reframerVars,
                    serviceVars>>
outsideAssembler == <<trackerVars, editVars, mainVars, subtitleVars, reframerVars,
                      serviceVars>>

\* ------------------------------------------------------------- file paths
\* temp_audio_path = os.path.join(BASE_DIR, "temp_audio.wav"): no session id.
temp_audio_path == <<"temp_audio", 0, 0>>
\* temp_clip_{session_id}.mp4 and its siblings (MultiClipProcessor.py 29-31, 79)
temp_clip(sid) == <<"temp_clip", sid, 0>>
temp_cropped(sid) == <<"temp_cropped", sid, 0>>
temp_subtitled(sid) == <<"temp_subtitled", sid, 0>>
temp_original_subtitled(sid) == <<"temp_original_subtitled", sid, 0>>
\* output/{video_title}_clip{i}_{session_id}_{type}.mp4
output_filename(type, sid, i) == <<type, sid, i>>

\* ------------------------------------------------------------ pure helpers
Abs(v) == IF v < 0 THEN -v ELSE v
Min(a, b) == IF a < b THEN a ELSE b

\* n = int(sample_rate * frame_duration_ms / 1000) * 2
ChunkBytes(sample_rate, frame_duration_ms) ==
  ((sample_rate * frame_duration_ms) \div 1000) * BytesPerSample

\* process_audio_frame: the generator yields while offset + n <= len(audio_data)
\* (variant: the bound taken strict, dropping a last exact chunk)
HasNextChunkStrict(off, len) == off + ChunkBytes(SampleRate, FrameDurationMs) < len
HasNextChunk(off, len) == off + ChunkBytes(SampleRate, FrameDurationMs) <= len

\* lip_distance = abs((y + 2 * face_height // 3) - (y1)), box = <<x, y, x1, y1>>
lip_distance(b) == Abs((b[2] + ((2 * (b[4] - b[2])) \div 3)) - b[4])

\* confidence > 0.3
\* (variant: no threshold at all)
PassesThresholdMut(d) == d.confidence >= 0
PassesThreshold(d) == d.confidence > ConfThreshold

\* First loop (lines 101-120): MaxDif = max(lip_distance, MaxDif) over the
\* detections passing the threshold, starting from 0; face_found; and the
\* box left in the locals x, y, x1, y1.
RECURSIVE FirstLoop(_, _, _)
FirstLoop(dets, i, acc) ==
  IF i > Len(dets) THEN acc
  ELSE IF PassesThreshold(dets[i])
       THEN FirstLoop(dets, i + 1,
              [MaxDif |-> IF lip_distance(dets[i].box) > acc.MaxDif
                          THEN lip_distance(dets[i].box) ELSE acc.MaxDif,
               face_found |-> TRUE,
               xy |-> dets[i].box])
       ELSE FirstLoop(dets, i + 1, acc)

\* Second loop (lines 121-140): rebinds x, y, x1, y1 at every detection
\* passing the threshold and breaks at the first with lip_distance >= MaxDif.
\* (variant: the loop without its break)
RECURSIVE SecondLoopLast(_, _, _, _)
SecondLoopLast(dets, i, MaxDif, xy) ==
  IF i > Len(dets) THEN xy
  ELSE IF PassesThreshold(dets[i])
       THEN SecondLoopLast(dets, i + 1, MaxDif, dets[i].box)
       ELSE SecondLoopLast(dets, i + 1, MaxDif, xy)
RECURSIVE SecondLoop(_, _, _, _)
SecondLoop(dets, i, MaxDif, xy) ==
  IF i > Len(dets) THEN xy
  ELSE IF PassesThreshold(dets[i])
       THEN IF lip_distance(dets[i].box) >= MaxDif
            THEN dets[i].box
            ELSE SecondLoop(dets, i + 1, MaxDif, dets[i].box)
       ELSE SecondLoop(dets, i + 1, MaxDif, xy)

\* Lines 142-149: the element appended to Frames for this frame.
\* (variant: nothing carried forward)
DecisionNoCarry(dets, frames) ==
  LET first == FirstLoop(dets, 1, [MaxDif |-> 0, face_found |-> FALSE, xy |-> None])
  IN  IF first.face_found
      THEN SecondLoop(dets, 1, first.MaxDif, first.xy)
      ELSE None
Decision(dets, frames) ==
  LET first == FirstLoop(dets, 1, [MaxDif |-> 0, face_found |-> FALSE, xy |-> None])
  IN  IF first.face_found
      THEN SecondLoop(dets, 1, first.MaxDif, first.xy)
      ELSE IF Len(frames) > 0 THEN frames[Len(frames)] ELSE None

\* Lines 100 and 137-140: the VAD verdict of the frame's chunk is read by the
\* "Active Speaker" caption only; the break and the appended element are
\* decided without it.
\* (variant: the verdict as a veto on the frame's faces)
DecisionVetoed(dets, frames, speaking) ==
  Decision(IF speaking THEN dets ELSE <<>>, frames)
DecisionWithAudio(dets, frames, speaking) == Decision(dets, frames)

\* Vertical Reframer (spec 4.4).  size = <<w, h>>, a window is
\* <<left, top, right, bottom>>.
Clamp(v, lo, hi) == IF v < lo THEN lo ELSE IF v > hi THEN hi ELSE v
\* The configured smoothing bound, in pixels per frame.
SmoothingBound == 40
\* The 9:16 window: the full frame height, or, when the source is narrower
\* than that window, the full width and the 9:16 height that goes with it.
\* (variant: the ratio taken the wrong way round)
WindowSizeSwapped(size) ==
  LET cw == (size[2] * 16) \div 9
  IN  IF cw <= size[1] THEN <<cw, size[2]>> ELSE <<size[1], (size[1] * 9) \div 16>>
WindowSize(size) ==
  LET cw == (size[2] * 9) \div 16
  IN  IF cw <= size[1] THEN <<cw, size[2]>> ELSE <<size[1], (size[1] * 16) \div 9>>
\* The window horizontally centred on cx, clamped to the frame, vertically
\* centred.
\* (variant: no clamping)
WindowAtUnclamped(cx, size) ==
  LET ws == WindowSize(size)
      left == cx - ws[1] \div 2
      top == (size[2] - ws[2]) \div 2
  IN  <<left, top, left + ws[1], top + ws[2]>>
WindowAt(cx, size) ==
  LET ws == WindowSize(size)
      left == Clamp(cx - ws[1] \div 2, 0, size[1] - ws[1])
      top == (size[2] - ws[2]) \div 2
  IN  <<left, top, left + ws[1], top + ws[2]>>
WindowCenter(win) == (win[1] + win[3]) \div 2
\* The centre a decision asks for: the box's horizontal centre, the frame's
\* for None.
TargetCenter(decision, size) ==
  IF decision = None THEN size[1] \div 2 ELSE (decision[1] + decision[3]) \div 2
\* The unsmoothed window of one decision.
CropWindow(decision, size) == WindowAt(TargetCenter(decision, size), size)
\* The window of the next frame: the centre moves from the previous window's
\* towards the target by at most SmoothingBound.
\* (variant: no smoothing)
NextWindowUnsmoothed(prev, decision, size) == CropWindow(decision, size)
NextWindow(prev, decision, size) ==
  IF prev = None THEN CropWindow(decision, size)
  ELSE LET c == WindowCenter(prev)
           step == Clamp(TargetCenter(decision, size) - c,
                         -SmoothingBound, SmoothingBound)
       IN  WindowAt(c + step, size)
\* The CropPlan of a decision sequence.
RECURSIVE CropPlanOf(_, _)
CropPlanOf(ds, size) ==
  IF Len(ds) = 0 THEN <<>>
  ELSE LET before == CropPlanOf(SubSeq(ds, 1, Len(ds) - 1), size)
       IN  Append(before,
                  NextWindow(IF Len(before) = 0 THEN None ELSE before[Len(before)],
                             ds[Len(ds)], size))
FrameSize == <<1920, 1080>>

\* ------------------------------------------------------------ input domains
\* Face boxes <<x, y, x1, y1>>: lip distances 40, 25 and 40 again.
BoxA == <<100, 0, 200, 120>>
BoxB == <<300, 0, 400, 75>>
BoxC == <<500, 10, 600, 130>>
Detections ==
  { [box |-> BoxA, confidence |-> 90], [box |-> BoxB, confidence |-> 90],
    [box |-> BoxC, confidence |-> 50], [box |-> BoxB, confidence |-> 30] }

SeqsUpTo(S, n) == UNION { [1..k -> S] : k \in 0..n }
\* One frame's detections: up to MaxDetections of them, no detection twice.
AllFrames ==
  { f \in SeqsUpTo(Detections, MaxDetections) :
      \A i, j \in 1..Len(f) : i # j => f[i] # f[j] }
ConcFrames == { <<>>, <<[box |-> BoxA, confidence |-> 90]>> }
\* len(audio_data): 0..MaxChunks complete chunks, an odd count followed by
\* half a chunk more
AudioLens ==
  { k * ChunkBytes(SampleRate, FrameDurationMs)
      + (k % 2) * (ChunkBytes(SampleRate, FrameDurationMs) \div 2) : k \in 0..MaxChunks }

\* ------------------------------------------------------------------- Init
TrackerIdle ==
  /\ capPos = [p \in Passes |-> 0]
  /\ offset = [p \in Passes |-> 0]
  /\ detections = [p \in Passes |-> <<>>]
  /\ is_speaking_audio = [p \in Passes |-> FALSE]
  /\ Frames = <<>>
  /\ emitted = [p \in Passes |-> <<>>]
  /\ solo = [p \in Passes |-> <<>>]
  /\ result = [p \in Passes |-> <<>>]
  /\ hadFace = [p \in Passes |-> <<>>]
  /\ cropPlan = [p \in Passes |-> <<>>]

Runs == {1, 2}
\* session_id = str(uuid.uuid4())[:8]: one id per run, distinct between runs
SessionId(r) == r
OutputTypes == {"original", "subtitled", "original-subtitled", "original-dimension"}
DefaultTypes == <<"original", "original-dimension", "subtitled">>
OutputTypeLists ==
  { l \in SeqsUpTo(OutputTypes, MaxTypes) : Len(l) >= 1 } \cup {DefaultTypes}
ConcTypeLists == { <<"original">>, <<"original-subtitled">>, <<"original-dimension">> }
Outcomes == {"ok", "raise", "raise_partial"}

AssemblerIdle ==
  /\ clipIdx = [r \in Runs |-> 0]
  /\ typeIdx = [r \in Runs |-> 1]
  /\ output_files = [r \in Runs |-> <<>>]
  /\ failed_outputs = [r \in Runs |-> <<>>]
  /\ all_outputs = [r \in Runs |-> <<>>]
  /\ typeLog = [r \in Runs |-> <<>>]
  /\ cropLog = [r \in Runs |-> "none"]
  /\ fatal = [r \in Runs |-> {}]
  /\ touched = [r \in Runs |-> {}]
AssemblerOff ==
  /\ AssemblerIdle
  /\ pcA = [r \in Runs |-> "off"]
  /\ highlights = [r \in Runs |-> 0]
  /\ output_types = [r \in Runs |-> <<>>]
TrackerOff ==
  /\ TrackerIdle
  /\ pcT = [p \in Passes |-> "off"]
  /\ nFrames = [p \in Passes |-> 0]
  /\ audioLen = [p \in Passes |-> 0]
  /\ framePool = {}
  /\ clip = <<>>
  /\ speechPool = {}

EditOff ==
  /\ pcE = "off"
  /\ start_time = 0
  /\ end_time = 0
  /\ video_duration = 0
  /\ subclip_range = None
MainOff ==
  /\ pcM = "off"
  /\ auto_approve = FALSE
  /\ num_clips = 0
  /\ highlight_list = <<>>
  /\ approved = FALSE
  /\ cancelled = FALSE
  /\ regenerated = FALSE
SubtitlesOff ==
  /\ pcS = "off"
  /\ transcriptions = <<>>
  /\ video_start_time = 0
  /\ clip_duration = 0
  /\ text_clips = <<>>
  /\ clipOf = <<>>
  /\ clip_errors = {}
ReframerOff ==
  /\ pcR = "off"
  /\ frame_size = <<0, 0>>
  /\ decisions = <<>>
  /\ plan = <<>>
ApiOff ==
  /\ job_status_store = <<>>
  /\ job_status_lock = 0
  /\ pcB = [t \in TaskIds |-> "off"]
  /\ request_job = [t \in TaskIds |-> 0]
  /\ input_valid = [t \in TaskIds |-> FALSE]
  /\ proc_result = [t \in TaskIds |-> -1]
  /\ found = [t \in TaskIds |-> {}]
  /\ output_dir = {}
  /\ status_response = [code |-> 0]
  /\ pcP = "off"
  /\ sync_response = [code |-> 0]
ArchiveOff ==
  /\ service = "off"
  /\ jobs = <<>>
  /\ pcW = [j \in JobIds |-> "off"]
  /\ webhook_url = [j \in JobIds |-> FALSE]
  /\ notifications = [j \in JobIds |-> <<>>]
ServicesOff == ApiOff /\ ArchiveOff
\* The components a specification of the tracker or the assembler leaves out.
OthersOff == EditOff /\ MainOff /\ SubtitlesOff /\ ReframerOff /\ ServicesOff

\* One tracking pass over one clip.
Init ==
  /\ OthersOff
  /\ TrackerIdle
  /\ AssemblerOff
  /\ pcT = [p \in Passes |-> IF p = 1 THEN "start" ELSE "off"]
  /\ \E v \in 0..MaxFrames, a \in AudioLens :
       /\ nFrames = [p \in Passes |-> IF p = 1 THEN v ELSE 0]
       /\ audioLen = [p \in Passes |-> IF p = 1 THEN a ELSE 0]
  /\ framePool = AllFrames
  /\ clip = <<>>
  /\ speechPool = BOOLEAN
  /\ fs = {}

\* Two tracking passes in one process (two threads calling the function).
InitTwoPasses ==
  /\ OthersOff
  /\ TrackerIdle
  /\ AssemblerOff
  /\ pcT = [p \in Passes |-> "start"]
  /\ nFrames \in [Passes -> 1..MaxConcFrames]
  /\ audioLen \in [Passes -> { k * ChunkBytes(SampleRate, FrameDurationMs) :
                                 k \in {1, MaxConcFrames} }]
  /\ framePool = ConcFrames
  /\ clip = <<>>
  /\ speechPool = {TRUE}
  /\ fs = {}

\* One run of process_multiple_clips (main.py 228-231).
InitAssembler ==
  /\ OthersOff
  /\ TrackerOff
  /\ AssemblerIdle
  /\ pcA = [r \in Runs |-> IF r = 1 THEN "next_clip" ELSE "off"]
  /\ \E n \in 1..MaxHighlights, types \in OutputTypeLists :
       /\ n * Len(types) <= MaxOutputs
       /\ highlights = [r \in Runs |-> IF r = 1 THEN n ELSE 0]
       /\ output_types = [r \in Runs |-> IF r = 1 THEN types ELSE <<>>]
  /\ fs = {}

\* Two runs at once, each with its own session id, one highlight each.
InitTwoRuns ==
  /\ OthersOff
  /\ TrackerOff
  /\ AssemblerIdle
  /\ pcA = [r \in Runs |-> "next_clip"]
  /\ highlights = [r \in Runs |-> 1]
  /\ output_types \in [Runs -> ConcTypeLists]
  /\ fs = {}

\* Lines 88 and 93-95: the detections of the frame cap.read() delivers: the
\* clip's next frame when the run fixes the video, any frame of the pool else.
FrameSource(p) ==
  IF clip = <<>> THEN framePool ELSE {clip[capPos[p] + 1]}

\* ---------------------------------------------------------------- actions
\* Lines 69-85: reset the global list, extract and read the audio, open cap.
BeginPass(p) ==
  /\ UNCHANGED outsideTracker
  /\ pcT[p] = "start"
  /\ Frames' = <<>>
  /\ fs' = fs \cup {temp_audio_path}
  /\ pcT' = [pcT EXCEPT ![p] = "loop"]
  /\ UNCHANGED <<nFrames, audioLen, capPos, offset, detections,
                 is_speaking_audio, emitted, solo, result, hadFace,
                 cropPlan, framePool, speechPool, clip>>

\* Lines 88-90: cap.read() returns ret = False.
VideoExhausted(p) ==
  /\ UNCHANGED outsideTracker
  /\ pcT[p] = "loop"
  /\ capPos[p] >= nFrames[p]
  /\ pcT' = [pcT EXCEPT ![p] = "release"]
  /\ UNCHANGED <<nFrames, audioLen, capPos, offset, detections,
                 is_speaking_audio, Frames, emitted, solo, result, hadFace,
                 cropPlan, framePool, speechPool, clip, fs>>

\* Lines 88-99: a frame is read and detected on, the generator is exhausted.
AudioExhausted(p) ==
  /\ UNCHANGED outsideTracker
  /\ pcT[p] = "loop"
  /\ capPos[p] < nFrames[p]
  /\ ~HasNextChunk(offset[p], audioLen[p])
  /\ \E dets \in FrameSource(p) : detections' = [detections EXCEPT ![p] = dets]
  /\ capPos' = [capPos EXCEPT ![p] = @ + 1]
  /\ pcT' = [pcT EXCEPT ![p] = "release"]
  /\ UNCHANGED <<nFrames, audioLen, offset, is_speaking_audio, Frames,
                 emitted, solo, result, hadFace, cropPlan, framePool, speechPool, clip, fs>>

\* Lines 88-151: one full iteration of the loop.
ProcessFrame(p) ==
  /\ UNCHANGED outsideTracker
  /\ pcT[p] = "loop"
  /\ capPos[p] < nFrames[p]
  /\ HasNextChunk(offset[p], audioLen[p])
  /\ \E dets \in FrameSource(p), speaking \in speechPool :
       /\ detections' = [detections EXCEPT ![p] = dets]
       /\ is_speaking_audio' = [is_speaking_audio EXCEPT ![p] = speaking]
       /\ Frames' = Append(Frames, DecisionWithAudio(dets, Frames, speaking))
       /\ solo' = [solo EXCEPT ![p] = Append(@, DecisionWithAudio(dets, @, speaking))]
       /\ hadFace' = [hadFace EXCEPT ![p] =
            Append(@, \E i \in 1..Len(dets) : dets[i].confidence > ConfThreshold)]
  /\ capPos' = [capPos EXCEPT ![p] = @ + 1]
  /\ offset' = [offset EXCEPT ![p] = @ + ChunkBytes(SampleRate, FrameDurationMs)]
  /\ emitted' = [emitted EXCEPT ![p] = Append(@, capPos[p])]
  /\ UNCHANGED <<pcT, nFrames, audioLen, result, cropPlan, framePool, speechPool, clip, fs>>

\* Lines 153-159: release, remove the temporary audio file, return.
EndPass(p) ==
  /\ UNCHANGED outsideTracker
  /\ pcT[p] = "release"
  /\ fs' = fs \ {temp_audio_path}
  /\ result' = [result EXCEPT ![p] = Frames]
  /\ pcT' = [pcT EXCEPT ![p] = "done"]
  /\ UNCHANGED <<nFrames, audioLen, capPos, offset, detections,
                 is_speaking_audio, Frames, emitted, solo, hadFace,
                 cropPlan, framePool, speechPool, clip>>

\* Spec 4.4: the Reframer derives the crop plan from the decisions the
\* tracking pass left behind.
Reframe(p) ==
  /\ UNCHANGED outsideTracker
  /\ pcT[p] = "done"
  /\ cropPlan' = [cropPlan EXCEPT ![p] = CropPlanOf(result[p], FrameSize)]
  /\ pcT' = [pcT EXCEPT ![p] = "reframed"]
  /\ UNCHANGED <<nFrames, audioLen, capPos, offset, detections,
                 is_speaking_audio, Frames, emitted, solo, result, hadFace,
                 framePool, speechPool, clip, fs>>

detect_faces_and_speakers(p) ==
  \/ BeginPass(p)
  \/ VideoExhausted(p)
  \/ AudioExhausted(p)
  \/ ProcessFrame(p)
  \/ EndPass(p)

TrackerNext == \E p \in Passes : detect_faces_and_speakers(p) \/ Reframe(p)

\* ------------------------------------------------- clip assembler actions
InSeq(x, q) == \E k \in 1..Len(q) : q[k] = x
TempFiles(sid) == {temp_clip(sid), temp_cropped(sid), temp_subtitled(sid)}

\* A writer (write_videofile, copy2) that returns, raises before it creates
\* its file, or raises with the file begun.
WriteFile(o, path, files) == IF o = "raise" THEN files ELSE files \cup {path}

\* Line 39: needs_cropping = any(t in output_types for t in ['original', 'subtitled'])
needs_cropping(types) == InSeq("original", types) \/ InSeq("subtitled", types)

\* Lines 48-50: the output types marked failed when cropping raises.
\* (variant: only 'original' marked)
CropFailedOnlyOriginal(types) ==
  IF InSeq("original", types) THEN <<"original">> ELSE <<>>
CropFailedOutputs(types) ==
  (IF InSeq("original", types) THEN <<"original">> ELSE <<>>)
    \o (IF InSeq("subtitled", types) THEN <<"subtitled">> ELSE <<>>)

\* Lines 101-105: "continue" after an output type raised.
\* (variant: the loop left at the first failure)
AbortLoop(k, types) == Len(types) + 1
AfterFailure(k, types) == k + 1

\* Lines 113-117: the outer except swallows the error; the finally block runs.
\* (variant: the error leaves the function)
CriticalErrorPropagates == "halted"
CriticalErrorTarget == "cleanup"

\* Lines 137-150 and 21-31: next highlight, create_output_variations is entered.
StartClip(r) ==
  /\ UNCHANGED outsideAssembler
  /\ pcA[r] = "next_clip"
  /\ clipIdx[r] < highlights[r]
  /\ clipIdx' = [clipIdx EXCEPT ![r] = @ + 1]
  /\ typeIdx' = [typeIdx EXCEPT ![r] = 1]
  /\ output_files' = [output_files EXCEPT ![r] = <<>>]
  /\ failed_outputs' = [failed_outputs EXCEPT ![r] = <<>>]
  /\ typeLog' = [typeLog EXCEPT ![r] = <<>>]
  /\ cropLog' = [cropLog EXCEPT ![r] = "none"]
  /\ pcA' = [pcA EXCEPT ![r] = "extract"]
  /\ UNCHANGED <<highlights, output_types, all_outputs, fatal, touched, fs>>

\* Lines 33-36 (Edit.py 17-54): crop_video writes temp_clip or raises.
ExtractClip(r) ==
  /\ UNCHANGED outsideAssembler
  /\ pcA[r] = "extract"
  /\ \E o \in Outcomes :
       /\ fs' = WriteFile(o, temp_clip(SessionId(r)), fs)
       /\ fatal' = [fatal EXCEPT ![r] = IF o = "ok" THEN @ ELSE @ \cup {clipIdx[r]}]
       /\ pcA' = [pcA EXCEPT ![r] =
            IF o # "ok" THEN CriticalErrorTarget
            ELSE IF needs_cropping(output_types[r]) THEN "crop" ELSE "types"]
  /\ touched' = [touched EXCEPT ![r] = @ \cup {temp_clip(SessionId(r))}]
  /\ UNCHANGED <<highlights, output_types, clipIdx, typeIdx, output_files,
                 failed_outputs, all_outputs, typeLog, cropLog>>

\* crop_to_vertical(temp_clip, temp_cropped) (spec 4.5: Tracker + Reframer over
\* the sub-clip).  The tracking pass extracts the audio to temp_audio_path and
\* removes it only on its last lines (Speaker.py 72-78, 157-159); the render
\* then writes temp_cropped.  "raise": the pass raised after the extraction;
\* "raise_partial": the render raised with temp_cropped begun.
crop_to_vertical(o, sid, files) ==
  [fs |-> IF o = "raise" THEN files \cup {temp_audio_path}
          ELSE (files \ {temp_audio_path}) \cup {temp_cropped(sid)},
   used |-> {temp_clip(sid), temp_cropped(sid), temp_audio_path}]

\* Lines 40-50: the crop, and what its failure marks as failed.
CropToVertical(r) ==
  /\ UNCHANGED outsideAssembler
  /\ pcA[r] = "crop"
  /\ \E o \in Outcomes :
       LET eff == crop_to_vertical(o, SessionId(r), fs)
       IN  /\ fs' = eff.fs
           /\ touched' = [touched EXCEPT ![r] = @ \cup eff.used]
           /\ cropLog' = [cropLog EXCEPT ![r] = IF o = "ok" THEN "ok" ELSE "raised"]
           /\ failed_outputs' = [failed_outputs EXCEPT ![r] =
                IF o = "ok" THEN @ ELSE @ \o CropFailedOutputs(output_types[r])]
  /\ pcA' = [pcA EXCEPT ![r] = "types"]
  /\ UNCHANGED <<highlights, output_types, clipIdx, typeIdx, output_files,
                 all_outputs, typeLog, fatal>>

\* Lines 54-57 and 64-67: an output type that needs the crop is skipped.
Skips(r) ==
  /\ output_types[r][typeIdx[r]] \in {"original", "subtitled"}
  /\ InSeq(output_types[r][typeIdx[r]], failed_outputs[r])
SkipOutput(r) ==
  /\ UNCHANGED outsideAssembler
  /\ pcA[r] = "types"
  /\ Skips(r)
  /\ typeLog' = [typeLog EXCEPT ![r] = Append(@, "skipped")]
  /\ typeIdx' = [typeIdx EXCEPT ![r] = @ + 1]
  /\ pcA' = [pcA EXCEPT ![r] =
       IF typeIdx[r] + 1 > Len(output_types[r]) THEN "cleanup" ELSE "types"]
  /\ UNCHANGED <<highlights, output_types, clipIdx, output_files, failed_outputs,
                 all_outputs, cropLog, fatal, touched, fs>>

\* Lines 58-99: what producing one output type does to the files, and whether
\* it got as far as output_files.append.  o1 is the outcome of the first
\* writer of the branch, o2 of the second.
TypeEffect(type, sid, out, o1, o2, files) ==
  CASE type = "original" ->
         [fs |-> WriteFile(o1, out, files), ok |-> o1 = "ok",
          used |-> {temp_clip(sid), temp_cropped(sid)}]
    [] type = "subtitled" ->
         IF o1 # "ok"
         THEN [fs |-> WriteFile(o1, temp_subtitled(sid), files), ok |-> FALSE,
               used |-> {temp_cropped(sid), temp_subtitled(sid)}]
         ELSE [fs |-> WriteFile(o2, out, files \cup {temp_subtitled(sid)}),
               ok |-> o2 = "ok",
               used |-> {temp_clip(sid), temp_cropped(sid), temp_subtitled(sid)}]
    [] type = "original-subtitled" ->
         IF o1 # "ok"
         THEN [fs |-> WriteFile(o1, temp_original_subtitled(sid), files), ok |-> FALSE,
               used |-> {temp_clip(sid), temp_original_subtitled(sid)}]
         ELSE IF o2 = "ok"
              THEN [fs |-> (files \ {temp_original_subtitled(sid)}) \cup {out},
                    ok |-> TRUE,
                    used |-> {temp_clip(sid), temp_original_subtitled(sid)}]
              ELSE [fs |-> files \cup {temp_original_subtitled(sid)}, ok |-> FALSE,
                    used |-> {temp_clip(sid), temp_original_subtitled(sid)}]
    [] type = "original-dimension" ->
         [fs |-> WriteFile(o1, out, files), ok |-> o1 = "ok",
          used |-> {temp_clip(sid)}]

\* Lines 52-105: one iteration of the loop that is not skipped.
ProduceOutput(r) ==
  /\ UNCHANGED outsideAssembler
  /\ pcA[r] = "types"
  /\ ~Skips(r)
  /\ \E o1, o2 \in Outcomes :
       LET type == output_types[r][typeIdx[r]]
           out == output_filename(type, SessionId(r), clipIdx[r])
           eff == TypeEffect(type, SessionId(r), out, o1, o2, fs)
           next == IF eff.ok THEN typeIdx[r] + 1
                   ELSE AfterFailure(typeIdx[r], output_types[r])
       IN  /\ fs' = eff.fs
           /\ output_files' = [output_files EXCEPT ![r] =
                IF eff.ok THEN Append(@, out) ELSE @]
           /\ failed_outputs' = [failed_outputs EXCEPT ![r] =
                IF eff.ok THEN @ ELSE Append(@, type)]
           /\ typeLog' = [typeLog EXCEPT ![r] =
                Append(@, IF eff.ok THEN "ok" ELSE "raised")]
           /\ touched' = [touched EXCEPT ![r] = @ \cup eff.used]
           /\ typeIdx' = [typeIdx EXCEPT ![r] = next]
           /\ pcA' = [pcA EXCEPT ![r] =
                IF next > Len(output_types[r]) THEN "cleanup" ELSE "types"]
  /\ UNCHANGED <<highlights, output_types, clipIdx, all_outputs, cropLog, fatal>>

\* Lines 117-126 and 152-155: the finally block, the return, all_outputs[i].
Cleanup(r) ==
  /\ UNCHANGED outsideAssembler
  /\ pcA[r] = "cleanup"
  /\ fs' = fs \ TempFiles(SessionId(r))
  /\ touched' = [touched EXCEPT ![r] = @ \cup TempFiles(SessionId(r))]
  /\ all_outputs' = [all_outputs EXCEPT ![r] = Append(@, output_files[r])]
  /\ pcA' = [pcA EXCEPT ![r] = "next_clip"]
  /\ UNCHANGED <<highlights, output_types, clipIdx, typeIdx, output_files,
                 failed_outputs, typeLog, cropLog, fatal>>

\* Line 159: return all_outputs.
FinishRun(r) ==
  /\ UNCHANGED outsideAssembler
  /\ pcA[r] = "next_clip"
  /\ clipIdx[r] >= highlights[r]
  /\ pcA' = [pcA EXCEPT ![r] = "returned"]
  /\ UNCHANGED <<highlights, output_types, clipIdx, typeIdx, output_files,
                 failed_outputs, all_outputs, typeLog, cropLog, fatal, touched, fs>>

create_output_variations(r) ==
  \/ ExtractClip(r)
  \/ CropToVertical(r)
  \/ SkipOutput(r)
  \/ ProduceOutput(r)
  \/ Cleanup(r)

process_multiple_clips(r) ==
  \/ StartClip(r)
  \/ create_output_variations(r)
  \/ FinishRun(r)

AssemblerNext == \E r \in Runs : process_multiple_clips(r)
\* A tracking pass and a run of the assembler are separate entry points.
Next == TrackerNext

Spec == Init /\ [][Next]_vars
SpecTwoPasses == InitTwoPasses /\ [][Next]_vars
SpecAssembler == InitAssembler /\ [][AssemblerNext]_vars
SpecTwoRuns == InitTwoRuns /\ [][AssemblerNext]_vars

\* ------------------------------------------------------------------ claims
Returned(p) == pcT[p] \in {"done", "reframed"}
MaxOf(S) == CHOOSE m \in S : \A k \in S : k <= m
Candidates(dets) == { i \in 1..Len(dets) : dets[i].confidence > ConfThreshold }

\* C1: in a tracking pass, the decision of every processed frame in which no
\* detection passes the confidence threshold equals the decision of the frame
\* before it, which is the most recent non-None decision, or None when no
\* earlier frame of the pass had a face.
C1_NoFaceCarriesPrevious ==
  \A t \in 1..Len(Frames) :
    (t <= Len(hadFace[1]) /\ ~hadFace[1][t]) =>
      LET earlier == { k \in 1..(t - 1) : Frames[k] # None }
          faced == { k \in 1..(t - 1) : hadFace[1][k] }
      IN  /\ Frames[t] = IF t = 1 THEN None ELSE Frames[t - 1]
          /\ Frames[t] = IF earlier = {} THEN None ELSE Frames[MaxOf(earlier)]
          /\ (faced = {}) <=> (Frames[t] = None)
C1_Witness ==
  /\ Len(Frames) = 3
  /\ hadFace[1] = <<TRUE, FALSE, FALSE>>
  /\ Frames = <<BoxB, BoxB, BoxB>>

\* C2: for a processed frame with at least one candidate, the decision (the new
\* last element of Frames) is the box of the first candidate in detection
\* order whose lip distance equals the frame's maximum, speech or no speech.
C2_FirstMaxCandidateWins ==
  (pcT[1] = "loop" /\ Len(Frames) > 0 /\ Candidates(detections[1]) # {}) =>
    LET dets == detections[1]
        cands == Candidates(dets)
        maxLip == MaxOf({ lip_distance(dets[i].box) : i \in cands })
        winner == CHOOSE i \in cands :
                    /\ lip_distance(dets[i].box) = maxLip
                    /\ \A j \in cands : j < i => lip_distance(dets[j].box) < maxLip
    IN  Frames[Len(Frames)] = dets[winner].box
C2_Witness ==
  /\ pcT[1] = "loop"
  /\ detections[1] = <<[box |-> BoxB, confidence |-> 90], [box |-> BoxA, confidence |-> 90]>>
  /\ ~is_speaking_audio[1]
  /\ Len(Frames) = 2
  /\ Frames[2] = BoxA

\* C3: when no frame of the clip ever has a detected face, every decision is
\* None and the Reframer's crop is the same centred window on every frame.
CenteredWindow ==
  LET cw == (FrameSize[2] * 9) \div 16
      left == FrameSize[1] \div 2 - cw \div 2
  IN  <<left, 0, left + cw, FrameSize[2]>>
C3_FacelessClipAllNone ==
  (\A t \in 1..Len(hadFace[1]) : ~hadFace[1][t]) =>
    /\ \A t \in 1..Len(Frames) : Frames[t] = None
    /\ pcT[1] = "reframed" =>
         /\ Len(cropPlan[1]) = Len(hadFace[1])
         /\ \A t \in 1..Len(cropPlan[1]) : cropPlan[1][t] = CenteredWindow
C3_Witness ==
  /\ pcT[1] = "reframed"
  /\ hadFace[1] = <<FALSE, FALSE, FALSE>>
  /\ Len(cropPlan[1]) = 3
  /\ Len(detections[1]) > 0

\* C4: a tracking pass ends when either stream runs out: it emits exactly
\* min(video frames, complete 30 ms chunks) decisions, one per frame index in
\* increasing order, none for a frame read after the chunks ran out, and it
\* never stops short of returning.
C4_EmitsMinOfStreams ==
  LET chunks == audioLen[1] \div ChunkBytes(SampleRate, FrameDurationMs)
      want == Min(nFrames[1], chunks)
  IN  /\ Len(emitted[1]) <= want
      /\ capPos[1] <= nFrames[1]
      /\ \A k \in 1..Len(emitted[1]) : emitted[1][k] = k - 1
      /\ Len(Frames) = Len(emitted[1])
      /\ Returned(1) => Len(emitted[1]) = want /\ Len(result[1]) = want
      /\ pcT[1] \in {"start", "loop", "release"} => ENABLED TrackerNext
C4_Witness ==
  /\ pcT[1] = "done"
  /\ nFrames[1] = 3
  /\ capPos[1] = 3
  /\ Len(emitted[1]) = 2
  /\ audioLen[1] = 2 * ChunkBytes(SampleRate, FrameDurationMs)

\* C10: two overlapping passes in one process each produce the decision
\* sequence they would produce alone.
C10_PassesIndependent ==
  \A p \in Passes : Returned(p) => result[p] = solo[p]

\* create_output_variations has returned for clip clipIdx[r] and the next call
\* has not begun; all_outputs[r][clipIdx[r]] is the list it returned.
ClipReturned(r) == pcA[r] \in {"next_clip", "returned"} /\ clipIdx[r] >= 1
ReturnedFiles(r) == all_outputs[r][clipIdx[r]]
Range(q) == { q[k] : k \in 1..Len(q) }

RaisedTypes(r) ==
  { output_types[r][k] : k \in { j \in 1..Len(typeLog[r]) : typeLog[r][j] = "raised" } }
CropMarked(r) ==
  IF cropLog[r] = "raised"
  THEN {"original", "subtitled"} \cap Range(output_types[r]) ELSE {}
ProducedFiles(r) ==
  { output_filename(output_types[r][k], SessionId(r), clipIdx[r]) :
      k \in { j \in 1..Len(typeLog[r]) : typeLog[r][j] = "ok" } }
FailuresIsolated(r) ==
  /\ Range(failed_outputs[r]) = RaisedTypes(r) \cup CropMarked(r)
  /\ Range(output_files[r]) = ProducedFiles(r)
  /\ Range(output_files[r]) \subseteq fs

\* C6 as stated: for every highlight every requested output type is attempted,
\* and a failure is isolated to its type.
C6_EveryTypeAttempted ==
  \A r \in Runs :
    /\ FailuresIsolated(r)
    /\ ClipReturned(r) =>
         /\ Len(typeLog[r]) = Len(output_types[r])
         /\ \A k \in 1..Len(typeLog[r]) : typeLog[r][k] # "skipped"

\* C6 amended: for every highlight whose sub-clip extraction succeeds, every
\* requested output type is reached by the loop and is attempted unless it is
\* 'original' or 'subtitled' and already marked failed, by a cropping failure
\* or by an earlier failure of the same type; an exception raised while
\* producing one type records only that type as failed, never keeps a later
\* type from being reached, and never removes a file already listed.
C6_FailuresIsolatedPerType ==
  \A r \in Runs :
    /\ FailuresIsolated(r)
    /\ (ClipReturned(r) /\ clipIdx[r] \notin fatal[r]) =>
         /\ Len(typeLog[r]) = Len(output_types[r])
         /\ \A k \in 1..Len(typeLog[r]) :
              typeLog[r][k] = "skipped" =>
                /\ output_types[r][k] \in {"original", "subtitled"}
                /\ \/ cropLog[r] = "raised"
                   \/ \E j \in 1..(k - 1) :
                        /\ output_types[r][j] = output_types[r][k]
                        /\ typeLog[r][j] = "raised"
         /\ Range(ReturnedFiles(r)) = ProducedFiles(r)
C6_Witness ==
  /\ ClipReturned(1)
  /\ output_types[1] = DefaultTypes
  /\ cropLog[1] = "ok"
  /\ typeLog[1] = <<"ok", "raised", "ok">>
  /\ failed_outputs[1] = <<"original-dimension">>
  /\ Len(ReturnedFiles(1)) = 2

\* C7: a fatal failure of one highlight does not halt the run:
\* process_multiple_clips goes on to every later highlight in order and
\* returns an entry for every index 1..n, the failed one's file list empty.
C7_FatalClipDoesNotHaltRun ==
  \A r \in Runs :
    /\ pcA[r] = "returned" => Len(all_outputs[r]) = highlights[r]
    /\ pcA[r] = "next_clip" => Len(all_outputs[r]) = clipIdx[r]
    /\ \A i \in fatal[r] : i <= Len(all_outputs[r]) => all_outputs[r][i] = <<>>
    /\ pcA[r] \notin {"off", "returned"} => ENABLED process_multiple_clips(r)
C7_Witness ==
  /\ pcA[1] = "returned"
  /\ highlights[1] = 2
  /\ fatal[1] = {1}
  /\ all_outputs[1][1] = <<>>
  /\ all_outputs[1][2] # <<>>

\* C8: when create_output_variations returns, on every exit path, none of the
\* clip's temporary files exists: not the sub-clip, the cropped clip, the
\* subtitled clip, the temporary original-subtitled clip, the tracker's audio.
C8_NoTempFileAfterReturn ==
  \A r \in Runs :
    ClipReturned(r) =>
      fs \cap (TempFiles(SessionId(r))
                 \cup {temp_original_subtitled(SessionId(r)), temp_audio_path}) = {}

\* C9: two concurrent runs with distinct session ids never write, read or
\* delete the same temporary path.
C9_TempPathsDisjoint == touched[1] \cap touched[2] = {}

\* The files of clip i of run r in the output directory.
OutputDir(r, i) == { output_filename(t, SessionId(r), i) : t \in OutputTypes }

\* C11: after create_output_variations returns, every file of the clip in the
\* output directory is one listed in the returned output_files: a final file
\* whose writing began and failed is not left behind.
C11_NoPartialOutput ==
  \A r \in Runs :
    ClipReturned(r) =>
      (fs \cap OutputDir(r, clipIdx[r])) \subseteq Range(ReturnedFiles(r))

\* ------------------------------------------------ crop_video (Edit.py 17-54)
MaxTenths == 6        \* times on a grid of tenths of a second up to this many

\* "- 0.1  # Small buffer to avoid edge cases", in hundredths of a second
Buffer == 10
\* Line 26: max_time = video.duration - 0.1
max_time(duration) == duration - Buffer
\* Lines 27-29: if end_time > max_time: end_time = max_time
\* (variant: the end capped to the duration itself)
CappedEndAtDuration(end, duration) == IF end > duration THEN duration ELSE end
CappedEnd(end, duration) ==
  IF end > max_time(duration) THEN max_time(duration) ELSE end

\* Times crop_video is called with: a grid of tenths of a second around the
\* buffer, half a tenth, and the values of the spec's two scenarios.
TimeValues ==
  { 10 * k : k \in 0..MaxTenths } \cup {5, 1000, 3192, 4000, 4490, 4500, 4920, 6000}
Durations == TimeValues \ {0}

InitEdit ==
  /\ TrackerOff
  /\ ServicesOff
  /\ AssemblerOff
  /\ MainOff
  /\ SubtitlesOff
  /\ ReframerOff
  /\ fs = {}
  /\ pcE = "call"
  /\ start_time \in TimeValues
  /\ end_time \in TimeValues
  /\ video_duration \in Durations
  /\ subclip_range = None

\* Lines 22-44: open the file, cap the end, take the subclip, write it.
\* "raise": VideoFileClip(input_file) raised; "raise_partial": write_videofile
\* raised.  Either is printed and raised again (40-44).
crop_video ==
  /\ pcE = "call"
  /\ \E o \in Outcomes :
       /\ subclip_range' =
            IF o = "raise" THEN None
            ELSE <<start_time, CappedEnd(end_time, video_duration)>>
       /\ pcE' = IF o = "ok" THEN "returned" ELSE "raised"
  /\ UNCHANGED <<start_time, end_time, video_duration>>
  /\ UNCHANGED <<serviceVars, trackerVars, assemblerVars, fs, mainVars, subtitleVars, reframerVars>>

EditNext == crop_video
SpecEdit == InitEdit /\ [][EditNext]_vars

\* C12: the range crop_video hands to the extraction is
\* [start, min(end, duration - 0.1 s)]: an end beyond duration - 0.1 is capped
\* to exactly duration - 0.1, an end at or below it is used unchanged; so
\* 31.92-49.2 on a 45.0 s video ends at 44.9 and [10, 40] of a 60 s video
\* asks for exactly 30 s.
C12_EndCappedToDurationMinusBuffer ==
  (pcE \in {"returned", "raised"} /\ subclip_range # None) =>
    /\ subclip_range[1] = start_time
    /\ subclip_range[2] = Min(end_time, video_duration - 10)
    /\ end_time > video_duration - 10 => subclip_range[2] = video_duration - 10
    /\ end_time <= video_duration - 10 => subclip_range[2] = end_time
    /\ (start_time = 3192 /\ end_time = 4920 /\ video_duration = 4500) =>
         subclip_range = <<3192, 4490>>
    /\ (start_time = 1000 /\ end_time = 4000 /\ video_duration = 6000) =>
         subclip_range[2] - subclip_range[1] = 3000
C12_Witness ==
  /\ pcE = "returned"
  /\ start_time = 3192
  /\ end_time = 4920
  /\ video_duration = 4500
  /\ subclip_range = <<3192, 4490>>

\* ------------------------- highlight selection (LanguageTasks.py) and main.py
MaxClips == 2         \* args.clips ranges over 1..MaxClips
MaxResp == 2          \* highlights in one response of the language model

\* A float the language model returned: a number, in half seconds, or nan/inf.
Num(v) == [k |-> "num", v |-> v]
NaN == [k |-> "nan", v |-> 0]
Inf == [k |-> "inf", v |-> 0]
\* int(x) of a finite float truncates toward zero.
IntCast(x) == IF x.v >= 0 THEN x.v \div 2 ELSE -((-x.v) \div 2)

\* The (start, end) pairs a response may hold: 0-2.0, 0.5-1.5, 1.5-2.0,
\* -1.5-2.0, -0.5-1.5, 2.0-0.5, 1.5-1.5 (equal after the cast), nan-2.0, 0-inf.
RawClips ==
  { [start |-> Num(0), end |-> Num(4)], [start |-> Num(1), end |-> Num(3)],
    [start |-> Num(3), end |-> Num(4)], [start |-> Num(-3), end |-> Num(4)],
    [start |-> Num(-1), end |-> Num(3)], [start |-> Num(4), end |-> Num(1)],
    [start |-> Num(3), end |-> Num(3)], [start |-> NaN, end |-> Num(4)],
    [start |-> Num(0), end |-> Inf] }
\* chain.invoke: it raises or returns nothing (ok = FALSE), or returns clips.
Responses ==
  { [ok |-> FALSE, highlights |-> <<>>] }
    \cup { [ok |-> TRUE, highlights |-> l] : l \in SeqsUpTo(RawClips, MaxResp) }

\* response.highlights[:num_clips]
Slice(l, n) ==
  IF n >= 0 THEN SubSeq(l, 1, Min(n, Len(l)))
  ELSE SubSeq(l, 1, IF Len(l) + n > 0 THEN Len(l) + n ELSE 0)

\* Lines 129-135: negative times and end <= start are skipped.
\* (variant: the order of start and end not looked at)
ValidRangeNoOrder(start, end) == ~(start < 0 \/ end < 0)
ValidRange(start, end) == ~(start < 0 \/ end < 0) /\ ~(end <= start)

\* Lines 122-148: the loop over the clips.  int() of nan raises ValueError,
\* which skips the clip (146-148); int() of inf raises OverflowError, which
\* leaves the loop for the outer handler (160-171).
RECURSIVE HighlightLoop(_, _, _)
HighlightLoop(clips, i, acc) ==
  IF i > Len(clips) THEN [raised |-> FALSE, list |-> acc]
  ELSE LET c == clips[i] IN
       IF c.start.k = "nan" THEN HighlightLoop(clips, i + 1, acc)
       ELSE IF c.start.k = "inf" THEN [raised |-> TRUE, list |-> acc]
       ELSE IF c.end.k = "nan" THEN HighlightLoop(clips, i + 1, acc)
       ELSE IF c.end.k = "inf" THEN [raised |-> TRUE, list |-> acc]
       ELSE IF ValidRange(IntCast(c.start), IntCast(c.end))
            THEN HighlightLoop(clips, i + 1,
                   Append(acc, [start |-> IntCast(c.start), end |-> IntCast(c.end)]))
            ELSE HighlightLoop(clips, i + 1, acc)

\* Lines 90-171.
GetMultipleHighlights(response, n) ==
  IF ~response.ok THEN <<>>
  ELSE LET r == HighlightLoop(Slice(response.highlights, n), 1, <<>>)
       IN  IF r.raised THEN <<>> ELSE r.list

\* Lines 174-251: <<Start, End>>, or None for the pair (None, None).  The
\* response of this path is one clip, here the first of the list.
GetHighlight(response) ==
  IF ~response.ok \/ Len(response.highlights) = 0 THEN None
  ELSE LET c == response.highlights[1] IN
       IF c.start.k # "num" \/ c.end.k # "num" THEN None
       ELSE IF IntCast(c.start) < 0 \/ IntCast(c.end) < 0 THEN None
       ELSE IF IntCast(c.end) <= IntCast(c.start) THEN None
       ELSE <<IntCast(c.start), IntCast(c.end)>>

\* main.py 137-146 and 195-202: the list "highlights" after a selection.
SelectHighlights(response, n) ==
  IF n > 1 THEN GetMultipleHighlights(response, n)
  ELSE LET se == GetHighlight(response)
       IN  IF se # None THEN <<[start |-> se[1], end |-> se[2]]>> ELSE <<>>

\* --output-types of the run modelled from main.py on; the transcript is taken
\* to be the list of (text, start, end) triples that line 132 iterates over.
MainTypes == <<"original">>

InitMain ==
  /\ TrackerOff
  /\ ServicesOff
  /\ AssemblerIdle
  /\ EditOff
  /\ SubtitlesOff
  /\ ReframerOff
  /\ fs = {}
  /\ pcA = [r \in Runs |-> "off"]
  /\ highlights = [r \in Runs |-> 0]
  /\ output_types = [r \in Runs |-> IF r = 1 THEN MainTypes ELSE <<>>]
  /\ pcM = "select"
  /\ auto_approve \in BOOLEAN
  /\ num_clips \in 1..MaxClips
  /\ highlight_list = <<>>
  /\ approved = FALSE
  /\ cancelled = FALSE
  /\ regenerated = FALSE

\* Lines 137-169: the first selection; no highlight is sys.exit(1); then the
\* approval loop is entered unless --auto-approve.
Select ==
  /\ pcM = "select"
  /\ \E response \in Responses :
       LET hl == SelectHighlights(response, num_clips)
       IN  /\ highlight_list' = hl
           /\ approved' = (hl # <<>> /\ auto_approve)
           /\ pcM' = IF hl = <<>> THEN "exit_1"
                     ELSE IF auto_approve THEN "call" ELSE "prompt"
  /\ UNCHANGED <<auto_approve, num_clips, cancelled, regenerated>>
  /\ UNCHANGED <<serviceVars, trackerVars, assemblerVars, fs, editVars, subtitleVars, reframerVars>>

\* Lines 193-203: 'r' selects again and goes round the loop.
PromptRegenerate ==
  /\ pcM = "prompt"
  /\ \E response \in Responses :
       highlight_list' = SelectHighlights(response, num_clips)
  /\ regenerated' = TRUE
  /\ UNCHANGED <<pcM, auto_approve, num_clips, approved, cancelled>>
  /\ UNCHANGED <<serviceVars, trackerVars, assemblerVars, fs, editVars, subtitleVars, reframerVars>>

\* Lines 204-206 and 213-215: 'n' calls sys.exit(0) inside the try block; the
\* SystemExit it raises is caught by the bare "except:" of that try, which
\* sets approved = True.
PromptCancel ==
  /\ pcM = "prompt"
  /\ cancelled' = TRUE
  /\ approved' = TRUE
  /\ pcM' = "call"
  /\ UNCHANGED <<auto_approve, num_clips, highlight_list, regenerated>>
  /\ UNCHANGED <<serviceVars, trackerVars, assemblerVars, fs, editVars, subtitleVars, reframerVars>>

\* Lines 207-215: any other input, the 15 s timeout, or select() raising.
PromptApprove ==
  /\ pcM = "prompt"
  /\ approved' = TRUE
  /\ pcM' = "call"
  /\ UNCHANGED <<auto_approve, num_clips, highlight_list, cancelled, regenerated>>
  /\ UNCHANGED <<serviceVars, trackerVars, assemblerVars, fs, editVars, subtitleVars, reframerVars>>

\* Lines 228-231: process_multiple_clips(Vid, highlights, ..., output_types).
CallProcess ==
  /\ pcM = "call"
  /\ pcM' = "processing"
  /\ pcA' = [pcA EXCEPT ![1] = "next_clip"]
  /\ highlights' = [highlights EXCEPT ![1] = Len(highlight_list)]
  /\ UNCHANGED <<output_types, clipIdx, typeIdx, output_files, failed_outputs,
                 all_outputs, typeLog, cropLog, fatal, touched>>
  /\ UNCHANGED <<auto_approve, num_clips, highlight_list, approved, cancelled,
                 regenerated>>
  /\ UNCHANGED <<serviceVars, trackerVars, fs, editVars, subtitleVars, reframerVars>>

\* Lines 233-250: the call has returned; the summary is printed.
ReportSuccess ==
  /\ pcM = "processing"
  /\ pcA[1] = "returned"
  /\ pcM' = "done"
  /\ UNCHANGED <<auto_approve, num_clips, highlight_list, approved, cancelled,
                 regenerated>>
  /\ UNCHANGED <<serviceVars, trackerVars, assemblerVars, fs, editVars, subtitleVars, reframerVars>>

main ==
  \/ Select
  \/ PromptRegenerate
  \/ PromptCancel
  \/ PromptApprove
  \/ CallProcess
  \/ ReportSuccess

MainNext == main \/ process_multiple_clips(1)
SpecMain == InitMain /\ [][MainNext]_vars

\* The list main.py holds has been, or is about to be, handed to
\* process_multiple_clips.
Handed == pcM \in {"call", "processing", "done"}

\* C13: every highlight handed to the clip assembler satisfies
\* end > start >= 0, whatever start and end values the language model
\* returned: a candidate with a negative time or with end <= start is dropped
\* by GetMultipleHighlights, and GetHighlight gives (None, None) for it.
C13_HandedHighlightsValid ==
  /\ \A k \in 1..Len(highlight_list) :
       /\ highlight_list[k].end > highlight_list[k].start
       /\ highlight_list[k].start >= 0
  /\ pcM = "processing" => highlights[1] = Len(highlight_list)
C13_Witness ==
  /\ pcM = "processing"
  /\ regenerated
  /\ num_clips = 2
  /\ highlight_list = <<[start |-> 0, end |-> 1], [start |-> 1, end |-> 2]>>
  /\ clipIdx[1] = 2

\* C14: when several highlights are requested, the highlights handed to the
\* clip assembler are pairwise non-overlapping: for any two of them a and b,
\* a.end <= b.start or b.end <= a.start.
C14_HighlightsNonOverlapping ==
  (Handed /\ num_clips > 1) =>
    \A i, j \in 1..Len(highlight_list) :
      i # j => \/ highlight_list[i].end <= highlight_list[j].start
               \/ highlight_list[j].end <= highlight_list[i].start

\* C20: once 'n' has been entered at the approval prompt the run is cancelled:
\* process_multiple_clips is never invoked afterwards and no clip is extracted
\* or written.
C20_CancelNeverProcesses ==
  cancelled =>
    /\ pcM \notin {"processing", "done"}
    /\ pcA[1] = "off"
    /\ touched[1] = {}
    /\ fs = {}

\* --------------------------- add_subtitles_to_video (Subtitles.py 5-130)
MaxSegments == 2      \* transcript segments handed in
MaxSubTime == 2       \* segment times range over 0..MaxSubTime tenths of a second

Max(a, b) == IF a > b THEN a ELSE b
\* text.strip()
Texts == {"", " ", " hi "}
strip(text) == IF text \in {" hi ", "hi"} THEN "hi" ELSE ""

\* Segments [text, start, end] of the transcript, in the order of their start.
Segments ==
  { [text |-> x, start |-> a, end |-> b] :
      x \in Texts, a \in 0..MaxSubTime, b \in 0..MaxSubTime }
Transcripts ==
  { l \in SeqsUpTo({ g \in Segments : g.start <= g.end }, MaxSegments) :
      \A k \in 1..(Len(l) - 1) : l[k].start <= l[k + 1].start }

\* Lines 24-35: the segments kept, shifted to the sub-clip and clamped.  idx
\* remembers which segment an entry came from.
\* (variant: the window test left out)
InWindowAlways(adjusted_start, adjusted_end, duration) == TRUE
InWindow(adjusted_start, adjusted_end, duration) ==
  adjusted_end > 0 /\ adjusted_start < duration
RECURSIVE relevant_transcriptions(_, _, _, _)
relevant_transcriptions(segs, i, t0, duration) ==
  IF i > Len(segs) THEN <<>>
  ELSE LET adjusted_start == segs[i].start - t0
           adjusted_end == segs[i].end - t0
       IN  IF InWindow(adjusted_start, adjusted_end, duration)
           THEN <<[text |-> strip(segs[i].text),
                   start |-> Max(0, adjusted_start),
                   end |-> Min(duration, adjusted_end),
                   idx |-> i]>>
                  \o relevant_transcriptions(segs, i + 1, t0, duration)
           ELSE relevant_transcriptions(segs, i + 1, t0, duration)

\* Lines 59-86: one text clip per kept segment with text left after strip()
\* and whose TextClip(...) did not raise (bad: the segments it raises for).
RECURSIVE MakeTextClips(_, _, _)
MakeTextClips(rel, i, bad) ==
  IF i > Len(rel) THEN <<>>
  ELSE IF strip(rel[i].text) = "" \/ rel[i].idx \in bad
       THEN MakeTextClips(rel, i + 1, bad)
       ELSE <<[text |-> strip(rel[i].text), start |-> rel[i].start,
               duration |-> rel[i].end - rel[i].start, idx |-> rel[i].idx]>>
              \o MakeTextClips(rel, i + 1, bad)

InitSubtitles ==
  /\ TrackerOff
  /\ ServicesOff
  /\ AssemblerOff
  /\ EditOff
  /\ MainOff
  /\ ReframerOff
  /\ fs = {}
  /\ pcS = "call"
  /\ transcriptions \in Transcripts
  /\ video_start_time \in 0..1
  /\ clip_duration \in 1..2
  /\ text_clips = <<>>
  /\ clipOf = <<>>
  /\ clip_errors = {}

\* Lines 20-130: the whole call.  "raise": VideoFileClip(input_video) raised;
\* "raise_partial": write_videofile raised; both are raised again.  bad is
\* the set of segments for which TextClip(...) raises (84-86).
add_subtitles_to_video ==
  /\ pcS = "call"
  /\ \E o \in Outcomes, bad \in SUBSET (1..Len(transcriptions)) :
       LET rel == relevant_transcriptions(transcriptions, 1, video_start_time,
                                          clip_duration)
           made == IF o = "raise" THEN <<>> ELSE MakeTextClips(rel, 1, bad)
       IN  /\ o = "raise" => bad = {}
           /\ bad \subseteq { rel[k].idx : k \in { j \in 1..Len(rel) : strip(rel[j].text) # "" } }
           /\ text_clips' = [k \in 1..Len(made) |->
                [text |-> made[k].text, start |-> made[k].start,
                 duration |-> made[k].duration]]
           /\ clipOf' = [k \in 1..Len(made) |-> made[k].idx]
           /\ clip_errors' = bad
           /\ pcS' = IF o = "ok" THEN "returned" ELSE "raised"
  /\ UNCHANGED <<transcriptions, video_start_time, clip_duration>>
  /\ UNCHANGED <<serviceVars, trackerVars, assemblerVars, fs, editVars, mainVars, reframerVars>>

SubtitlesNext == add_subtitles_to_video
SpecSubtitles == InitSubtitles /\ [][SubtitlesNext]_vars

\* Segment k of the transcript has a text clip in the composite.
Rendered(k) == \E c \in 1..Len(clipOf) : clipOf[c] = k
Overlaps(g) ==
  /\ g.end - video_start_time > 0
  /\ g.start - video_start_time < clip_duration
\* Every text clip carries its segment's window, shifted and clamped.
ShiftedAndClamped ==
  \A c \in 1..Len(text_clips) :
    LET g == transcriptions[clipOf[c]]
        start1 == text_clips[c].start
        end1 == text_clips[c].start + text_clips[c].duration
    IN  /\ start1 = Max(0, g.start - video_start_time)
        /\ end1 = Min(clip_duration, g.end - video_start_time)
        /\ g.end > g.start => (0 <= start1 /\ start1 < end1 /\ end1 <= clip_duration)

\* C15 as stated: a segment is rendered if and only if its window overlaps
\* the sub-clip's and its text is non-empty; each rendered subtitle is
\* shifted to the sub-clip's start and clamped to [0, clipDuration].
C15_RenderedIffOverlapping ==
  pcS = "returned" =>
    /\ \A k \in 1..Len(transcriptions) :
         Rendered(k) <=> (Overlaps(transcriptions[k]) /\ transcriptions[k].text # "")
    /\ ShiftedAndClamped

\* C15 amended: a segment is rendered if and only if its window overlaps the
\* sub-clip's, its text is non-empty after stripping white space, and creating
\* its text clip does not raise; at most once, in transcript order; each
\* rendered subtitle is shifted to the sub-clip's start and clamped.
C15_RenderedIffOverlappingStripped ==
  pcS = "returned" =>
    /\ \A k \in 1..Len(transcriptions) :
         Rendered(k) <=> /\ Overlaps(transcriptions[k])
                         /\ strip(transcriptions[k].text) # ""
                         /\ k \notin clip_errors
    /\ \A c, d \in 1..Len(clipOf) : c < d => clipOf[c] < clipOf[d]
    /\ ShiftedAndClamped
C15_Witness ==
  /\ pcS = "returned"
  /\ video_start_time = 1
  /\ clip_duration = 1
  /\ Len(transcriptions) = 2
  /\ transcriptions[1] = [text |-> " hi ", start |-> 0, end |-> 1]
  /\ transcriptions[2] = [text |-> " hi ", start |-> 0, end |-> 2]
  /\ text_clips = <<[text |-> "hi", start |-> 0, duration |-> 1]>>
  /\ clipOf = <<2>>

\* ------------------------------------------- the Reframer's pass (spec 4.4)
MaxPlanFrames == 3    \* frames of one Reframer pass

\* Source resolutions: landscape, 4:3, tiny, portrait 9:16, narrower than 9:16.
Resolutions ==
  { <<1920, 1080>>, <<1280, 720>>, <<640, 480>>, <<160, 90>>, <<1080, 1920>>,
    <<480, 1280>> }
\* Decision boxes of a frame: touching the left edge, touching the right edge
\* (and larger), in the middle.
LeftBox(size) == <<0, 0, size[1] \div 8, size[2] \div 4>>
RightBox(size) == <<size[1] - size[1] \div 4, 0, size[1], size[2] \div 2>>
MidBox(size) == <<size[1] \div 3, size[2] \div 4, size[1] \div 2, size[2] \div 2>>
DecisionsFor(size) == {None, LeftBox(size), RightBox(size), MidBox(size)}

InitReframer ==
  /\ TrackerOff
  /\ ServicesOff
  /\ AssemblerOff
  /\ EditOff
  /\ MainOff
  /\ SubtitlesOff
  /\ fs = {}
  /\ pcR = "pass"
  /\ \E size \in Resolutions :
       /\ frame_size = size
       /\ decisions \in SeqsUpTo(DecisionsFor(size), MaxPlanFrames)
  /\ plan = <<>>

\* The window of the next frame is added to the plan.
ReframeFrame ==
  /\ pcR = "pass"
  /\ Len(plan) < Len(decisions)
  /\ plan' = Append(plan,
                    NextWindow(IF Len(plan) = 0 THEN None ELSE plan[Len(plan)],
                               decisions[Len(plan) + 1], frame_size))
  /\ UNCHANGED <<pcR, frame_size, decisions>>
  /\ UNCHANGED <<serviceVars, trackerVars, assemblerVars, fs, editVars, mainVars, subtitleVars>>

\* Every frame has its window: the plan goes to the renderer.
ReframeDone ==
  /\ pcR = "pass"
  /\ Len(plan) = Len(decisions)
  /\ pcR' = "done"
  /\ UNCHANGED <<frame_size, decisions, plan>>
  /\ UNCHANGED <<serviceVars, trackerVars, assemblerVars, fs, editVars, mainVars, subtitleVars>>

reframe == ReframeFrame \/ ReframeDone
ReframerNext == reframe
SpecReframer == InitReframer /\ [][ReframerNext]_vars

\* C16: every window of the plan lies within the source frame and has
\* strictly positive width and height, boxes at a frame edge included.
C16_WindowWithinFrame ==
  \A t \in 1..Len(plan) :
    /\ 0 <= plan[t][1] /\ plan[t][1] < plan[t][3] /\ plan[t][3] <= frame_size[1]
    /\ 0 <= plan[t][2] /\ plan[t][2] < plan[t][4] /\ plan[t][4] <= frame_size[2]
C16_Witness ==
  /\ pcR = "done"
  /\ frame_size = <<160, 90>>
  /\ decisions = <<RightBox(frame_size), LeftBox(frame_size), LeftBox(frame_size)>>
  /\ plan[1] = <<110, 0, 160, 90>>
  /\ plan[3] = <<30, 0, 80, 90>>

\* C17: within one pass the window's width and height are the same on every
\* frame and in the ratio 9:16 (to the pixel), whatever the source resolution
\* and the decisions.
C17_ConstantSizeAndAspect ==
  \A t \in 1..Len(plan) :
    LET cw == plan[t][3] - plan[t][1]
        ch == plan[t][4] - plan[t][2]
    IN  /\ cw = plan[1][3] - plan[1][1]
        /\ ch = plan[1][4] - plan[1][2]
        /\ cw = (ch * 9) \div 16 \/ ch = (cw * 16) \div 9
C17_Witness ==
  /\ pcR = "done"
  /\ frame_size = <<480, 1280>>
  /\ decisions = <<None, LeftBox(frame_size), RightBox(frame_size)>>
  /\ Len(plan) = 3
  /\ plan[3][3] - plan[3][1] = 480
  /\ plan[3][4] - plan[3][2] = 853

MaxPairFrames == 10   \* frames and chunks of a clip long enough for drift

\* The frame rate of the clip cap reads: 30 fps.
Fps == 30

\* One tracking pass over a clip of up to MaxPairFrames frames with no face.
InitPairing ==
  /\ OthersOff
  /\ TrackerIdle
  /\ AssemblerOff
  /\ pcT = [p \in Passes |-> IF p = 1 THEN "start" ELSE "off"]
  /\ \E v \in 0..MaxPairFrames, k \in 0..MaxPairFrames :
       /\ nFrames = [p \in Passes |-> IF p = 1 THEN v ELSE 0]
       /\ audioLen = [p \in Passes |->
            IF p = 1 THEN k * ChunkBytes(SampleRate, FrameDurationMs) ELSE 0]
  /\ framePool = {<<>>}
  /\ clip = <<>>
  /\ speechPool = {TRUE}
  /\ fs = {}
SpecPairing == InitPairing /\ [][Next]_vars

\* C19: the chunk paired with frame t, the t-th 30 ms chunk, covers
\* [30 t, 30 (t + 1)) ms, which overlaps the frame's window
\* [1000 t / fps, 1000 (t + 1) / fps) ms; stated at 30 fps, both sides
\* multiplied by fps.  The k-th decision of a pass is made on frame
\* emitted[k] with the k-th chunk the generator yields.
C19_PairedWindowsOverlap ==
  \A k \in 1..Len(emitted[1]) :
    LET t == emitted[1][k]
        c == k - 1
    IN  /\ FrameDurationMs * c * Fps < 1000 * (t + 1)
        /\ 1000 * t < FrameDurationMs * (c + 1) * Fps

\* ---------------------------------------------------------------------------
\* azure_api.py: the in-memory job store and the processing endpoints.
\* Strings stand for the optional fields: "" is None.  processing_time and
\* started_at are left out (no claim reads them).

\* Lines 170-178: the record a first update of a job id creates.
NewRecord(status, message) ==
  [status |-> status, message |-> message, progress |-> 0, output_files |-> {},
   error_message |-> "", completed_at |-> ""]

\* Lines 169-181: create the record, or overwrite status and message only.
WriteBase(store, j, status, message) ==
  [k \in DOMAIN store \cup {j} |->
     IF k # j THEN store[k]
     ELSE IF j \in DOMAIN store
          THEN [store[j] EXCEPT !.status = status, !.message = message]
          ELSE NewRecord(status, message)]

\* Lines 184-185: every keyword argument overwrites its key.
Merge(rec, kw) ==
  [f \in DOMAIN rec |-> IF f \in DOMAIN kw THEN kw[f] ELSE rec[f]]

\* The calls of update_job_status, named by the position of the caller while
\* it is inside the call; files is the list the caller's glob built.
Writes == {"w_queued", "w_start", "w_download", "w_upload", "w_completed",
           "w_nofiles", "w_timeout", "w_exception"}
UpdateOf(w, files) ==
  CASE w = "w_queued" ->
         [status |-> "queued", message |-> "Job queued for processing",
          kw |-> <<>>]
    [] w = "w_start" ->
         [status |-> "processing", message |-> "Starting video processing...",
          kw |-> [progress |-> 5]]
    [] w = "w_download" ->
         [status |-> "processing",
          message |-> "Downloading and transcribing video...",
          kw |-> [progress |-> 20]]
    [] w = "w_upload" ->
         [status |-> "processing", message |-> "Uploading output files...",
          kw |-> [progress |-> 90]]
    [] w = "w_nofiles" ->
         [status |-> "failed", message |-> "No video clips generated",
          kw |-> [progress |-> 100, completed_at |-> "utcnow",
                  error_message |-> "details"]]
    [] w = "w_completed" ->
         [status |-> "completed", message |-> "Successfully generated video clips",
          kw |-> [progress |-> 100, completed_at |-> "utcnow",
                  output_files |-> files]]
    [] w = "w_timeout" ->
         [status |-> "failed", message |-> "Processing timed out after 2 hours",
          kw |-> [progress |-> 100, completed_at |-> "utcnow",
                  error_message |-> "timeout"]]
    [] w = "w_exception" ->
         [status |-> "failed", message |-> "Processing failed",
          kw |-> [progress |-> 100, completed_at |-> "utcnow",
                  error_message |-> "exception"]]

\* Where a caller stands after its call returned.
After(w) ==
  CASE w = "w_queued" -> "queued"
    [] w = "w_start" -> "build"
    [] w = "w_download" -> "run"
    [] w = "w_upload" -> "glob"
    [] OTHER -> "done"

\* The lock taken although another thread holds it.
CanAcquireAlways == TRUE
\* "with job_status_lock:" is entered only while nobody holds the lock.
CanAcquire == job_status_lock = 0

\* update_job_status, lines 168-181: take the lock, write status and message.
update_begin(t, w) ==
  /\ CanAcquire
  /\ job_status_lock' = t
  /\ LET u == UpdateOf(w, found[t])
     IN  job_status_store' =
           WriteBase(job_status_store, request_job'[t], u.status, u.message)
  /\ pcB' = [pcB EXCEPT ![t] = w]

\* update_job_status, lines 184-187: write the keyword arguments, release.
update_end(t) ==
  /\ pcB[t] \in Writes
  /\ LET j == request_job[t]
         u == UpdateOf(pcB[t], found[t])
     IN  job_status_store' =
           [job_status_store EXCEPT ![j] = Merge(@, u.kw)]
  /\ job_status_lock' = 0
  /\ pcB' = [pcB EXCEPT ![t] = After(pcB[t])]
  /\ UNCHANGED <<request_job, input_valid, proc_result, found, output_dir,
                 status_response, pcP, sync_response>>

\* POST /process-async, line 362: the handler marks the job queued, whatever
\* the store holds for that job id.
Accept(t) ==
  /\ pcB[t] = "idle"
  /\ \E j \in JobIds, valid \in BOOLEAN :
       /\ request_job' = [request_job EXCEPT ![t] = j]
       /\ input_valid' = [input_valid EXCEPT ![t] = valid]
  /\ update_begin(t, "w_queued")
  /\ UNCHANGED <<proc_result, found, output_dir, status_response, pcP,
                 sync_response>>

\* Lines 365-372: the call returns, the task is added and the answer sent.
Enqueue(t) ==
  /\ pcB[t] = "w_queued"
  /\ update_end(t)

process_video_async(t) == Accept(t) \/ Enqueue(t)

\* The call of update_job_status the task makes from each position:
\* line 195, line 220 (after the command is built), line 241, lines 297-318
\* (by the length of the list), lines 320-330, lines 331-344.
CallAt(t) ==
  CASE pcB[t] = "queued" -> "w_start"
    [] pcB[t] = "build" -> "w_download"
    [] pcB[t] = "ran" -> "w_upload"
    [] pcB[t] = "found" ->
         IF Cardinality(found[t]) = 0 THEN "w_nofiles" ELSE "w_completed"
    [] pcB[t] = "timed_out" -> "w_timeout"
    [] pcB[t] = "raised" -> "w_exception"
    [] OTHER -> "none"

BeginUpdate(t) ==
  /\ CallAt(t) \in Writes
  /\ pcB[t] = "build" => input_valid[t]
  /\ UNCHANGED <<request_job, input_valid, proc_result, found, output_dir,
                 status_response, pcP, sync_response>>
  /\ update_begin(t, CallAt(t))

EndUpdate(t) ==
  /\ pcB[t] \in Writes \ {"w_queued"}
  /\ update_end(t)

\* Lines 213-218: neither a youtube_url nor a video_file_path: ValueError.
InvalidInput(t) ==
  /\ pcB[t] = "build"
  /\ ~input_valid[t]
  /\ pcB' = [pcB EXCEPT ![t] = "raised"]
  /\ UNCHANGED <<job_status_store, job_status_lock, request_job, input_valid,
                 proc_result, found, output_dir, status_response, pcP,
                 sync_response>>

\* What subprocess.run may do: return with a return code, run into the
\* timeout, or raise; a run that started may have written files.
RunOutcomes == {"returned_0", "returned_1", "timeout", "raise"}
FilesOf(run, n) == { <<run, k>> : k \in 1..n }
\* A run that hit the timeout is left where nothing continues it.
LandingLost(o) ==
  CASE o = "timeout" -> "lost"
    [] o = "raise" -> "raised"
    [] OTHER -> "ran"
Landing(o) ==
  CASE o = "timeout" -> "timed_out"
    [] o = "raise" -> "raised"
    [] OTHER -> "ran"
ReturnCode(o) ==
  CASE o = "returned_0" -> 0
    [] o = "returned_1" -> 1
    [] OTHER -> -1

\* Lines 225-232: main.py runs in /app and writes under /app/output.
RunSubprocess(t) ==
  /\ pcB[t] = "run"
  /\ \E o \in RunOutcomes, n \in 0..MaxRunFiles :
       /\ o = "raise" => n = 0
       /\ output_dir' = output_dir \cup FilesOf(t, n)
       /\ proc_result' = [proc_result EXCEPT ![t] = ReturnCode(o)]
       /\ pcB' = [pcB EXCEPT ![t] = Landing(o)]
  /\ UNCHANGED <<job_status_store, job_status_lock, request_job, input_valid,
                 found, status_response, pcP, sync_response>>

\* Lines 243-292: every *.mp4 under /app/output goes into the list; the
\* upload decides the url of an entry only.
Glob(t) ==
  /\ pcB[t] = "glob"
  /\ found' = [found EXCEPT ![t] = output_dir]
  /\ pcB' = [pcB EXCEPT ![t] = "found"]
  /\ UNCHANGED <<job_status_store, job_status_lock, request_job, input_valid,
                 proc_result, output_dir, status_response, pcP, sync_response>>

process_video_background(t) ==
  \/ BeginUpdate(t)
  \/ EndUpdate(t)
  \/ InvalidInput(t)
  \/ RunSubprocess(t)
  \/ Glob(t)

\* GET /status/{job_id}, lines 346-353: under the lock, 404 or the record.
get_job_status ==
  /\ CanAcquire
  /\ \E j \in JobIds :
       status_response' =
         IF j \in DOMAIN job_status_store
         THEN [code |-> 200, body |-> job_status_store[j]]
         ELSE [code |-> 404]
  /\ UNCHANGED <<job_status_store, job_status_lock, pcB, request_job, input_valid,
                 proc_result, found, output_dir, pcP, sync_response>>

\* POST /process, lines 487-521: build the command and run it; the handler
\* holds the event loop until the subprocess is over.
SyncRun ==
  /\ pcP = "call"
  /\ \E valid \in BOOLEAN, o \in RunOutcomes, n \in 0..MaxRunFiles :
       /\ o = "raise" => n = 0
       /\ output_dir' = IF valid THEN output_dir \cup FilesOf(SyncId, n)
                        ELSE output_dir
       /\ pcP' = IF valid THEN Landing(o) ELSE "raised"
  /\ UNCHANGED <<job_status_store, job_status_lock, pcB, request_job, input_valid,
                 proc_result, found, status_response, sync_response>>

\* Lines 530-624: list every *.mp4 under /app/output and answer; the two
\* handlers answer without a list.
SyncAnswer(at, files) ==
  CASE at = "timed_out" ->
         [success |-> FALSE, message |-> "Processing timed out after 30 minutes",
          output_files |-> {}]
    [] at = "raised" ->
         [success |-> FALSE, message |-> "Processing failed", output_files |-> {}]
    [] OTHER ->
         IF Cardinality(files) = 0
         THEN [success |-> FALSE, message |-> "No video clips generated",
               output_files |-> {}]
         ELSE [success |-> TRUE,
               message |-> "Video processing completed successfully",
               output_files |-> files]

SyncRespond ==
  /\ pcP \in {"ran", "timed_out", "raised"}
  /\ sync_response' = SyncAnswer(pcP, output_dir)
  /\ pcP' = "done"
  /\ UNCHANGED <<job_status_store, job_status_lock, pcB, request_job, input_valid,
                 proc_result, found, output_dir, status_response>>

process_video == SyncRun \/ SyncRespond

\* A fresh server: an empty store, the requests not yet received.
InitApi ==
  /\ TrackerOff
  /\ AssemblerOff
  /\ EditOff
  /\ MainOff
  /\ SubtitlesOff
  /\ ReframerOff
  /\ ArchiveOff
  /\ fs = {}
  /\ job_status_store = <<>>
  /\ job_status_lock = 0
  /\ pcB = [t \in TaskIds |-> "idle"]
  /\ request_job = [t \in TaskIds |-> 0]
  /\ input_valid = [t \in TaskIds |-> FALSE]
  /\ proc_result = [t \in TaskIds |-> -1]
  /\ found = [t \in TaskIds |-> {}]
  /\ output_dir = {}
  /\ status_response = [code |-> 0]
  /\ pcP = "call"
  /\ sync_response = [code |-> 0]

outsideApi == <<trackerVars, assemblerVars, fs, editVars, mainVars, subtitleVars,
                reframerVars, archiveVars>>

\* The background tasks alone; with the status requests; with POST /process.
TasksNext ==
  /\ \E t \in TaskIds : process_video_async(t) \/ process_video_background(t)
  /\ UNCHANGED outsideApi
StoreNext ==
  /\ \/ \E t \in TaskIds : process_video_async(t) \/ process_video_background(t)
     \/ get_job_status
  /\ UNCHANGED outsideApi
EndpointsNext ==
  /\ \/ \E t \in TaskIds : process_video_async(t) \/ process_video_background(t)
     \/ process_video
  /\ UNCHANGED outsideApi
SpecJobs == InitApi /\ [][TasksNext]_vars
SpecStore == InitApi /\ [][StoreNext]_vars
SpecEndpoints == InitApi /\ [][EndpointsNext]_vars

\* A record carries an update: its status, its message and each keyword
\* argument it passed.
Carries(rec, u) ==
  /\ rec.status = u.status
  /\ rec.message = u.message
  /\ \A f \in DOMAIN u.kw : rec[f] = u.kw[f]
\* A record is the outcome of one whole update (fields the update does not
\* pass keep what earlier updates left).
Coherent(rec) == \E w \in Writes : Carries(rec, UpdateOf(w, rec.output_files))

C22_TerminalMarks ==
  /\ job_status_lock = 0 =>
       \A j \in DOMAIN job_status_store :
         LET rec == job_status_store[j]
         IN  /\ rec.status = "completed" => rec.output_files # {}
             /\ rec.message = "No video clips generated" =>
                  rec.status = "failed" /\ rec.output_files = {}
             /\ rec.message \in {"Processing timed out after 2 hours",
                                 "Processing failed"} => rec.status = "failed"
  /\ pcP = "done" =>
       /\ sync_response.success => sync_response.output_files # {}
       /\ sync_response.message # "Video processing completed successfully" =>
            ~sync_response.success /\ sync_response.output_files = {}

\* The files the runs made for job j wrote.
OwnFiles(j) == { f \in output_dir : f[1] \in TaskIds /\ request_job[f[1]] = j }

\* C24: the output_files recorded for a job hold only files that job's own
\* processing run produced: a job whose run produced no file is never
\* 'completed', no job lists a file another job's run wrote, and the answer
\* of POST /process lists only files of its own run.
C24_OnlyOwnFiles ==
  /\ job_status_lock = 0 =>
       \A j \in DOMAIN job_status_store :
         /\ job_status_store[j].output_files \subseteq OwnFiles(j)
         /\ job_status_store[j].status = "completed" => OwnFiles(j) # {}
  /\ pcP = "done" =>
       \A f \in sync_response.output_files : f[1] = SyncId

\* C25: a job's status only moves forward along queued -> processing ->
\* (completed | failed): once a job's record is 'completed' or 'failed', its
\* status, output_files, progress and completed_at never change again,
\* whatever requests follow, a second POST /process-async with the same
\* job_id included.  Stated on the steps taken from a record between updates.
Terminal == {"completed", "failed"}
C25_TerminalIsFinal ==
  [][ \A j \in DOMAIN job_status_store :
        (job_status_lock = 0 /\ job_status_store[j].status \in Terminal) =>
          /\ job_status_store'[j].status = job_status_store[j].status
          /\ job_status_store'[j].output_files = job_status_store[j].output_files
          /\ job_status_store'[j].progress = job_status_store[j].progress
          /\ job_status_store'[j].completed_at = job_status_store[j].completed_at
    ]_vars

\* The thread pool runs every task that was added, a handler that has begun
\* its update returns from it, and the subprocess returns or is timed out.
Scheduled(t) == (Enqueue(t) \/ process_video_background(t)) /\ UNCHANGED outsideApi
SpecJobsFair == SpecJobs /\ \A t \in TaskIds : WF_vars(Scheduled(t))

\* The record of job j is terminal, with progress 100 and completed_at set.
Ended(j) ==
  /\ job_status_lock = 0
  /\ j \in DOMAIN job_status_store
  /\ job_status_store[j].status \in Terminal
  /\ job_status_store[j].progress = 100
  /\ job_status_store[j].completed_at # ""

\* C26: every job accepted by POST /process-async eventually reaches status
\* 'completed' or 'failed' (the subprocess returning or hitting its timeout):
\* no job stays 'queued' or 'processing' forever, and the update that makes it
\* terminal sets progress to 100 and completed_at.
C26_EveryJobEnds ==
  \A t \in TaskIds :
    (pcB[t] \notin {"idle", "done"}) ~> (pcB[t] = "done" /\ Ended(request_job[t]))
\* Two accepted jobs have ended, one 'completed' and one timed out.
C26_Witness ==
  /\ pcB = [t \in TaskIds |-> "done"]
  /\ Ended(1) /\ job_status_store[1].status = "completed"
  /\ Ended(2) /\ job_status_store[2].error_message = "timeout"

\* ---------------------------------------------------------------------------
\* Two tracking passes, one after the other, over the same video with audio
\* tracks of the same length and any VAD verdicts.
VideoFrames ==
  { <<>>,
    <<[box |-> BoxA, confidence |-> 90]>>,
    <<[box |-> BoxB, confidence |-> 90], [box |-> BoxA, confidence |-> 90]>> }
Videos == { v \in SeqsUpTo(VideoFrames, MaxFrames) : Len(v) >= 1 }

InitSameVideo ==
  /\ OthersOff
  /\ TrackerIdle
  /\ AssemblerOff
  /\ pcT = [p \in Passes |-> IF p = 1 THEN "start" ELSE "wait"]
  /\ clip \in Videos
  /\ nFrames = [p \in Passes |-> Len(clip)]
  /\ \E a \in AudioLens : audioLen = [p \in Passes |-> a]
  /\ framePool = {}
  /\ speechPool = BOOLEAN
  /\ fs = {}

\* The caller runs the second pass once the first has returned.
CallAgain(p) ==
  /\ UNCHANGED outsideTracker
  /\ pcT[p] = "wait"
  /\ \A q \in Passes \ {p} : pcT[q] \in {"done", "reframed"}
  /\ pcT' = [pcT EXCEPT ![p] = "start"]
  /\ UNCHANGED <<nFrames, audioLen, capPos, offset, detections,
                 is_speaking_audio, Frames, emitted, solo, result, hadFace,
                 cropPlan, framePool, speechPool, clip, fs>>

SameVideoNext == TrackerNext \/ \E p \in Passes : CallAgain(p)
SpecSameVideo == InitSameVideo /\ [][SameVideoNext]_vars

\* C23: the decision sequence does not depend on the audio content: two
\* passes over the same frames, with audio tracks of the same number of
\* chunks and any speech verdicts per chunk, return the same decisions.
C23_DecisionsIgnoreAudio ==
  (\A p \in Passes : pcT[p] \in {"done", "reframed"}) => result[1] = result[2]
\* Both passes returned two decisions with a box, the last chunk classified
\* as speech in one pass and as silence in the other.
C23_Witness ==
  /\ \A p \in Passes : pcT[p] = "done"
  /\ Len(result[1]) = 2
  /\ result[1][2] # None
  /\ is_speaking_audio[1] # is_speaking_audio[2]

\* C29: main.py starts clip processing only with a non-empty highlight list:
\* whenever the selector has yielded no valid highlight, on the first
\* selection or after any number of 'r' answers, the run takes the 'Failed to
\* get highlights' error exit, so process_multiple_clips is never called, and
\* success never reported, with an empty list.
C29_NoProcessingWithoutHighlights ==
  pcM \in {"processing", "done"} => highlight_list # <<>>

\* C30: for every highlight with end > start >= 0 and every source duration,
\* the range crop_video hands to the extraction after capping the end has
\* extractedEnd > start, 0 <= start and extractedEnd <= duration; otherwise
\* crop_video raises instead of extracting an empty or reversed range.
\* Stated for the calls that returned, a start beyond the duration (which the
\* extraction itself may reject) left aside.
C30_ExtractedRangeValid ==
  (pcE = "returned" /\ end_time > start_time /\ start_time <= video_duration) =>
    /\ subclip_range[2] > subclip_range[1]
    /\ 0 <= subclip_range[1]
    /\ subclip_range[2] <= video_duration

\* ---------------------------------------------------------------------------
\* The archived decoupled system: api/main.py and api/gateway.py.  Both keep
\* jobs in a dict and run one background coroutine per job on the event loop,
\* so the handlers interleave with it at its awaits only.
Services == {"api", "gateway"}

\* jobs[job_id] = JobStatus(status="pending", progress=0, ...), then
\* background_tasks.add_task (api/main.py 113-131; the same in gateway.py).
Submit(j) ==
  /\ pcW[j] = "none"
  /\ jobs' = [k \in DOMAIN jobs \cup {j} |->
                IF k = j THEN [status |-> "pending", progress |-> 0] ELSE jobs[k]]
  /\ \E w \in BOOLEAN : webhook_url' = [webhook_url EXCEPT ![j] = w]
  /\ pcW' = [pcW EXCEPT ![j] = "pending"]
  /\ UNCHANGED <<service, notifications>>

\* The assignments of a terminal status, and send_webhook_notification up to
\* its request: the payload is built from the job as it stands (268-289).
Finish(j, status, progress, notify) ==
  /\ jobs' = [jobs EXCEPT ![j] = [status |-> status, progress |-> progress]]
  /\ notifications' =
       IF notify /\ webhook_url[j]
       THEN [notifications EXCEPT ![j] = Append(@, status)]
       ELSE notifications
  /\ pcW' = [pcW EXCEPT ![j] = IF notify /\ webhook_url[j] THEN "notifying"
                               ELSE "done"]

\* api/main.py 212-226: processing, progress 10, the import, progress 30, the
\* first sleep; or the import raises and 253-266 mark the job failed.
ApiStart(j) ==
  /\ service = "api"
  /\ pcW[j] = "pending"
  /\ \/ /\ jobs' = [jobs EXCEPT ![j] = [status |-> "processing", progress |-> 30]]
        /\ pcW' = [pcW EXCEPT ![j] = "sleep_1"]
        /\ UNCHANGED notifications
     \/ Finish(j, "failed", 0, TRUE)
  /\ UNCHANGED <<service, webhook_url>>

\* Lines 228-234: progress 60 and the second sleep.
ApiGenerate(j) ==
  /\ service = "api"
  /\ pcW[j] = "sleep_1"
  /\ jobs' = [jobs EXCEPT ![j].progress = 60]
  /\ pcW' = [pcW EXCEPT ![j] = "sleep_2"]
  /\ UNCHANGED <<service, webhook_url, notifications>>

\* Lines 236-251: completed, progress 100, the webhook if a url was given.
ApiComplete(j) ==
  /\ service = "api"
  /\ pcW[j] = "sleep_2"
  /\ Finish(j, "completed", 100, TRUE)
  /\ UNCHANGED <<service, webhook_url>>

\* The webhook request is over, whatever it answered (290-296).
WebhookAnswered(j) ==
  /\ pcW[j] = "notifying"
  /\ pcW' = [pcW EXCEPT ![j] = "done"]
  /\ UNCHANGED <<service, jobs, webhook_url, notifications>>

\* DELETE /jobs/{job_id}, api/main.py 173-191.
cancel_job(j) ==
  /\ service = "api"
  /\ j \in DOMAIN jobs
  /\ jobs[j].status \notin {"completed", "failed"}
  /\ jobs' = [jobs EXCEPT ![j].status = "cancelled"]
  /\ UNCHANGED <<service, pcW, webhook_url, notifications>>

\* gateway.py, process_video_background: processing, progress 5, and the
\* request to the processor is sent.
GatewayStart(j) ==
  /\ service = "gateway"
  /\ pcW[j] = "pending"
  /\ jobs' = [jobs EXCEPT ![j] = [status |-> "processing", progress |-> 5]]
  /\ pcW' = [pcW EXCEPT ![j] = "calling"]
  /\ UNCHANGED <<service, webhook_url, notifications>>

\* What the call of the processor may come to: 200 with success true, 200
\* with success false, another status code, asyncio.TimeoutError, any other
\* exception.  Only the first and the last branch call
\* send_webhook_notification.
ProcessorOutcomes == {"success", "reported_failure", "http_error", "timeout",
                      "exception"}
Notifies(o) == o \in {"success", "exception"}
GatewayAnswer(j) ==
  /\ service = "gateway"
  /\ pcW[j] = "calling"
  /\ \E o \in ProcessorOutcomes :
       IF o = "success" THEN Finish(j, "completed", 100, Notifies(o))
       ELSE Finish(j, "failed", 0, Notifies(o))
  /\ UNCHANGED <<service, webhook_url>>

archive_background(j) ==
  \/ ApiStart(j)
  \/ ApiGenerate(j)
  \/ ApiComplete(j)
  \/ GatewayStart(j)
  \/ GatewayAnswer(j)
  \/ WebhookAnswered(j)

\* One of the two servers, freshly started.
InitArchive ==
  /\ TrackerOff
  /\ AssemblerOff
  /\ EditOff
  /\ MainOff
  /\ SubtitlesOff
  /\ ReframerOff
  /\ ApiOff
  /\ fs = {}
  /\ service \in Services
  /\ jobs = <<>>
  /\ pcW = [j \in JobIds |-> "none"]
  /\ webhook_url = [j \in JobIds |-> FALSE]
  /\ notifications = [j \in JobIds |-> <<>>]

outsideArchive == <<trackerVars, assemblerVars, fs, editVars, mainVars,
                    subtitleVars, reframerVars, apiVars>>
ArchiveNext ==
  /\ \E j \in JobIds : Submit(j) \/ archive_background(j) \/ cancel_job(j)
  /\ UNCHANGED outsideArchive
SpecArchive == InitArchive /\ [][ArchiveNext]_vars

\* C27: in api/main.py, once DELETE /jobs/{job_id} has set a job's status to
\* 'cancelled', the status stays 'cancelled' in every later state: the
\* background task never afterwards sets 'processing', 'completed' or 'failed'.
C27_CancelledStays ==
  [][ \A j \in DOMAIN jobs :
        jobs[j].status = "cancelled" => jobs'[j].status = "cancelled" ]_vars

\* C28: whenever a job submitted with a webhook_url has reached a terminal
\* status ('completed' or 'failed', a processor-reported failure, a non-200
\* answer of the processor and a timeout included), exactly one webhook
\* notification was sent for it, carrying that status.
C28_OneWebhookPerTerminalJob ==
  \A j \in DOMAIN jobs :
    (webhook_url[j] /\ jobs[j].status \in Terminal) =>
      notifications[j] = <<jobs[j].status>>

====
